---- MODULE Spec2Model ----
(***************************************************************************)
(* The client-side session of the PartSelect chat agent: the App component *)
(* (cart, persistence, checkout), the ChatWindow component (message        *)
(* history, chat latch, product-card handlers), the CartModal component    *)
(* (quantity controls, checkout latch) and the services/api.js gateway.    *)
(*                                                                         *)
(* One action is one browser event processed to completion: a user input,  *)
(* the arrival of a fetch response together with the await continuations   *)
(* it releases, or a timer firing.  React state updates of one event and   *)
(* the effects they trigger (the save effect of App) are part of the       *)
(* action of that event.                                                   *)
(*                                                                         *)
(* Strings are sequences of text tokens, so that trim() and the || default *)
(* are computed, not assumed.  A JavaScript object is a record; a property *)
(* that is undefined is a field the record does not have.                  *)
(***************************************************************************)
EXTENDS Integers, Sequences, FiniteSets, TLC

\* ------------------------------------------------------------------ bounds
MaxMessages == 6     \* history length explored (the greeting included)
MaxQty == 2          \* largest line quantity the "+" control is driven to
MaxInFlight == 2     \* add-to-cart requests outstanding at once
MaxRemote == 2       \* remote adds per product explored
MaxCheckouts == 2    \* checkouts started in one session

\* ---------------------------------------------------------------- strings
WS == " "

RECURSIVE TrimStart(_)
TrimStart(s) ==
  IF s # <<>> /\ Head(s) = WS THEN TrimStart(Tail(s)) ELSE s

RECURSIVE TrimEnd(_)
TrimEnd(s) ==
  IF s # <<>> /\ s[Len(s)] = WS THEN TrimEnd(SubSeq(s, 1, Len(s) - 1)) ELSE s

\* String.prototype.trim
trim(s) == TrimEnd(TrimStart(s))

\* a || b for a string-or-undefined property `f` of object `o`
OrElse(o, f, dflt) ==
  IF f \in DOMAIN o THEN (IF o[f] = <<>> THEN dflt ELSE o[f]) ELSE dflt

\* a || [] for an array-or-undefined property: every array is truthy
OrEmptyList(o, f) == IF f \in DOMAIN o THEN o[f] ELSE <<>>

\* ------------------------------------------------------------------- data
P1 == [partselect_number |-> "PS1", name |-> "Ice Maker", price |-> 4495]
P2 == [partselect_number |-> "PS2", name |-> "Door Bin", price |-> 1500]
Parts == {P1, P2}
PartIds == {p.partselect_number : p \in Parts}

\* what the user may have typed when Send is pressed
Inputs == { <<>>, <<WS>>, <<WS, "ice", WS, "maker", WS>> }

ReplyText == <<"Here", WS, "are", WS, "parts">>

\* bodies of a 200 response of POST /chat
ChatData ==
  { [message |-> ReplyText, parts |-> <<P1, P2>>],
    [message |-> <<>>],
    [parts |-> <<>>] }

\* how a fetch ends: no connection, a non-2xx status, a 2xx status whose
\* body is not JSON, or a 2xx status with a JSON body
FailureKinds == {"network", "status", "malformed"}
ChatResponses ==
  {[kind |-> k] : k \in FailureKinds} \cup {[kind |-> "ok", data |-> d] : d \in ChatData}
CartResponses == {[kind |-> k] : k \in FailureKinds \cup {"ok"}}

\* the server has handled the request iff it answered with a 2xx status
ServerApplied(resp) == resp.kind \in {"ok", "malformed"}

defaultMessage ==
  << [role |-> "assistant", content |-> <<"Hi! I'm your PartSelect AI assistant.">>] >>

SorryText == <<"I'm sorry, I couldn't process your request.">>
ConnectText ==
  <<"I'm sorry, I'm having trouble connecting to the server. Please try again.">>
BackendDownText ==
  <<"Sorry, I'm having trouble connecting to the backend service.">>

errorMessage == [role |-> "assistant", content |-> ConnectText]

successMessage(part) ==
  [role |-> "assistant", content |-> <<"Successfully added **", part.name, "** to your cart!">>]

addErrorMessage(part) ==
  [role |-> "assistant", content |-> <<"Sorry, I couldn't add ", part.name, " to your cart.">>]

detailMessage(part) ==
  [role |-> "assistant",
   content |-> <<"Here are the details for **", part.name, "** (", part.partselect_number, ")">>]

\* ---------------------------------------------------------------- gateway
\* services/api.js exports getAIMessage twice.  Which definition the
\* ChatWindow import binds to is fixed per build; both are modelled.
ApiBuilds == {"rethrow", "fallback"}

\* getAIMessage, first definition: returns the parsed body, rethrows
getAIMessageRethrow(resp) ==
  IF resp.kind = "ok"
    THEN [threw |-> FALSE, value |-> resp.data]
    ELSE [threw |-> TRUE]

\* getAIMessage, last definition: wraps the body, never throws
getAIMessageFallback(resp) ==
  IF resp.kind = "ok"
    THEN [threw |-> FALSE,
          value |-> IF "message" \in DOMAIN resp.data
                      THEN [role |-> "assistant",
                            content |-> resp.data.message,
                            parts |-> OrEmptyList(resp.data, "parts")]
                      ELSE [role |-> "assistant",
                            parts |-> OrEmptyList(resp.data, "parts")]]
    ELSE [threw |-> FALSE,
          value |-> [role |-> "assistant", content |-> BackendDownText]]

getAIMessage(build, resp) ==
  IF build = "rethrow" THEN getAIMessageRethrow(resp) ELSE getAIMessageFallback(resp)

\* api addToCart: resolves on a 2xx status with a JSON body, throws otherwise
apiAddToCart(resp) == resp.kind = "ok"

\* api getCart and clearCart: one fetch each, resolve on a 2xx status with a
\* JSON body, log and rethrow otherwise.  No component calls them.
getCart(resp) == resp.kind = "ok"
clearCart(resp) == resp.kind = "ok"

\* ----------------------------------------------------------- cart reducer
HasLine(items, id) == \E i \in 1..Len(items) : items[i].partselect_number = id

\* mutation: the updater appends a line without looking for an existing one
AddItemAlwaysAppends(prevItems, part) ==
  Append(prevItems,
         [partselect_number |-> part.partselect_number, name |-> part.name,
          price |-> part.price, quantity |-> 1])

\* mutation: the updater leaves an existing line as it is
AddItemKeepsQuantity(prevItems, part) ==
  IF HasLine(prevItems, part.partselect_number)
    THEN prevItems
    ELSE Append(prevItems,
                [partselect_number |-> part.partselect_number, name |-> part.name,
                 price |-> part.price, quantity |-> 1])

\* mutation: the updater refreshes an existing line from the part it is given
AddItemRefreshesLine(prevItems, part) ==
  IF HasLine(prevItems, part.partselect_number)
    THEN [i \in 1..Len(prevItems) |->
            IF prevItems[i].partselect_number = part.partselect_number
              THEN [partselect_number |-> part.partselect_number, name |-> part.name,
                    price |-> part.price, quantity |-> prevItems[i].quantity + 1]
              ELSE prevItems[i]]
    ELSE Append(prevItems,
                [partselect_number |-> part.partselect_number, name |-> part.name,
                 price |-> part.price, quantity |-> 1])

\* mutation: the updater puts a new line in front
AddItemPrepends(prevItems, part) ==
  IF HasLine(prevItems, part.partselect_number)
    THEN [i \in 1..Len(prevItems) |->
            IF prevItems[i].partselect_number = part.partselect_number
              THEN [prevItems[i] EXCEPT !.quantity = @ + 1]
              ELSE prevItems[i]]
    ELSE <<[partselect_number |-> part.partselect_number, name |-> part.name,
            price |-> part.price, quantity |-> 1]>> \o prevItems

\* the updater of addToCart: increment the existing line or append a new one
AddItem(prevItems, part) ==
  IF HasLine(prevItems, part.partselect_number)
    THEN [i \in 1..Len(prevItems) |->
            IF prevItems[i].partselect_number = part.partselect_number
              THEN [prevItems[i] EXCEPT !.quantity = @ + 1]
              ELSE prevItems[i]]
    ELSE Append(prevItems,
                [partselect_number |-> part.partselect_number, name |-> part.name,
                 price |-> part.price, quantity |-> 1])

RECURSIVE FilterOut(_, _, _)
\* prevItems.filter((_, i) => i !== index), positions counted from `at`
FilterOut(items, index, at) ==
  IF items = <<>> THEN <<>>
  ELSE IF at = index THEN FilterOut(Tail(items), index, at + 1)
  ELSE <<Head(items)>> \o FilterOut(Tail(items), index, at + 1)

\* the updater of removeFromCart (index is 0-based as in the source)
RemoveLine(prevItems, index) == FilterOut(prevItems, index, 0)

\* mutation: updateCartQuantity without its newQuantity <= 0 branch
SetQuantityStores(prevItems, index, newQuantity) ==
  [i \in 1..Len(prevItems) |->
     IF i - 1 = index
       THEN [prevItems[i] EXCEPT !.quantity = newQuantity]
       ELSE prevItems[i]]

\* mutation: the removal branch is taken for a quantity of 0 only
SetQuantityRemovesAtZero(prevItems, index, newQuantity) ==
  IF newQuantity = 0
    THEN RemoveLine(prevItems, index)
    ELSE [i \in 1..Len(prevItems) |->
            IF i - 1 = index
              THEN [prevItems[i] EXCEPT !.quantity = newQuantity]
              ELSE prevItems[i]]

\* updateCartQuantity (index is 0-based as in the source)
SetQuantity(prevItems, index, newQuantity) ==
  IF newQuantity <= 0
    THEN RemoveLine(prevItems, index)
    ELSE [i \in 1..Len(prevItems) |->
            IF i - 1 = index
              THEN [prevItems[i] EXCEPT !.quantity = newQuantity]
              ELSE prevItems[i]]

\* JSON.stringify(cartItems): the property values of each line, in order
JSONstringify(items) ==
  [i \in 1..Len(items) |->
     <<items[i].partselect_number, items[i].name, items[i].price, items[i].quantity>>]

\* mutation: the parsed lines come back in reverse order
JSONparseReversed(text) ==
  [i \in 1..Len(text) |->
     [partselect_number |-> text[Len(text) + 1 - i][1], name |-> text[Len(text) + 1 - i][2],
      price |-> text[Len(text) + 1 - i][3], quantity |-> text[Len(text) + 1 - i][4]]]

\* JSON.parse of the text of an array of lines
JSONparse(text) ==
  [i \in 1..Len(text) |->
     [partselect_number |-> text[i][1], name |-> text[i][2],
      price |-> text[i][3], quantity |-> text[i][4]]]

\* localStorage.getItem returns null: nothing is stored under the key
NoItem == << <<"no item">> >>

\* stored texts that are not the text of an array: one that is not JSON,
\* the text of null, and the text of an object
GarbageText == << <<"{not json">> >>
NullText == << <<"null">> >>
ObjectText == << <<"{}">> >>

\* JSON.parse(text) throws a SyntaxError
JSONparseThrows(text) == text = GarbageText

\* JSON.parse(text) returns an array
ParsesToArray(text) == \A i \in 1..Len(text) : Len(text[i]) = 4

\* the load effect calls setCartItems: an item is stored (the text is
\* truthy) and JSON.parse returns
LoadSetsCart(text) == text # NoItem /\ ~JSONparseThrows(text)

\* mutation: the save effect runs after the first render only
SaveEffectOnMountOnly(stored, items, throws) == stored

\* the item the save effect leaves under the key, for the cart of the
\* render it belongs to: setItem stores the text unless it throws
SaveEffect(stored, items, throws) ==
  IF throws THEN stored ELSE JSONstringify(items)

\* the App after an effect or a render has run: an error thrown there is
\* caught by nothing, and React unmounts the tree
AfterError(threw) == IF threw THEN "crashed" ELSE "running"

\* ------------------------------------------------------------ JS numbers
\* A JS number is an IEEE 754 double.  The amounts of the cart are finite
\* and not negative, and far from the ends of the exponent range, so a
\* number is modelled as [m, e] with value m * 2^e, where m is 0 or has
\* exactly Precision bits.  m is a sequence of digits to the base Base,
\* lowest digit first, without zero digits at the high end.
Precision == 53
DigitBits == 13
Base == 2^DigitBits

RECURSIVE NatDigits(_)
\* the digits of a natural number
NatDigits(n) == IF n = 0 THEN <<>> ELSE <<n % Base>> \o NatDigits(n \div Base)

RECURSIVE Strip(_)
\* without zero digits at the high end
Strip(a) ==
  IF a = <<>> THEN <<>>
  ELSE IF a[Len(a)] = 0 THEN Strip(SubSeq(a, 1, Len(a) - 1))
  ELSE a

RECURSIVE AddDigits(_, _, _)
\* a + b + carry
AddDigits(a, b, carry) ==
  IF a = <<>> /\ b = <<>> THEN (IF carry = 0 THEN <<>> ELSE <<carry>>)
  ELSE LET x == IF a = <<>> THEN 0 ELSE Head(a)
           y == IF b = <<>> THEN 0 ELSE Head(b)
           t == x + y + carry
       IN  <<t % Base>> \o AddDigits(IF a = <<>> THEN <<>> ELSE Tail(a),
                                     IF b = <<>> THEN <<>> ELSE Tail(b),
                                     t \div Base)

RECURSIVE MulDigit(_, _, _)
\* a * k + carry, for a digit k
MulDigit(a, k, carry) ==
  IF a = <<>> THEN (IF carry = 0 THEN <<>> ELSE <<carry>>)
  ELSE LET t == Head(a) * k + carry
       IN  <<t % Base>> \o MulDigit(Tail(a), k, t \div Base)

RECURSIVE MulDigits(_, _)
\* a * b
MulDigits(a, b) ==
  IF a = <<>> \/ b = <<>> THEN <<>>
  ELSE LET rest == MulDigits(a, Tail(b))
       IN  AddDigits(Strip(MulDigit(a, Head(b), 0)),
                     IF rest = <<>> THEN <<>> ELSE <<0>> \o rest, 0)

RECURSIVE DivDigits(_, _)
\* quotient (with zero digits at the high end) and remainder of a by the
\* positive integer d
DivDigits(a, d) ==
  IF a = <<>> THEN [q |-> <<>>, r |-> 0]
  ELSE LET hi == DivDigits(Tail(a), d)
           t == Base * hi.r + Head(a)
       IN  [q |-> <<t \div d>> \o hi.q, r |-> t % d]

\* a * 2^k
Shl(a, k) ==
  IF a = <<>> THEN <<>>
  ELSE [i \in 1..(k \div DigitBits) |-> 0] \o Strip(MulDigit(a, 2^(k % DigitBits), 0))

\* a \div 2^k
Shr(a, k) ==
  IF Len(a) <= k \div DigitBits THEN <<>>
  ELSE Strip(DivDigits(SubSeq(a, (k \div DigitBits) + 1, Len(a)), 2^(k % DigitBits)).q)

\* bit i of a, the lowest bit being bit 1
Bit(a, i) ==
  IF (i - 1) \div DigitBits >= Len(a) THEN 0
  ELSE (a[((i - 1) \div DigitBits) + 1] \div 2^((i - 1) % DigitBits)) % 2

\* the number of bits of a
BitLen(a) ==
  IF a = <<>> THEN 0
  ELSE DigitBits * (Len(a) - 1)
       + (CHOOSE n \in 1..DigitBits : 2^(n - 1) <= a[Len(a)] /\ a[Len(a)] < 2^n)

\* a >= b
GeqDigits(a, b) ==
  \/ Len(a) > Len(b)
  \/ /\ Len(a) = Len(b)
     /\ \/ a = b
        \/ \E i \in 1..Len(a) :
             /\ a[i] > b[i]
             /\ \A j \in (i + 1)..Len(a) : a[j] = b[j]

Zero == [m |-> <<>>, e |-> 0]

\* the double nearest to a * 2^e (plus a fraction of 2^e that is not 0
\* when `sticky`), ties to even
Round(a, e, sticky) ==
  IF a = <<>> THEN Zero
  ELSE IF BitLen(a) <= Precision
    THEN [m |-> Shl(a, Precision - BitLen(a)), e |-> e - (Precision - BitLen(a))]
  ELSE LET drop == BitLen(a) - Precision
           kept == Shr(a, drop)
           rest == sticky \/ \E i \in 1..(drop - 1) : Bit(a, i) = 1
           up == Bit(a, drop) = 1 /\ (rest \/ Bit(kept, 1) = 1)
           m == IF up THEN AddDigits(kept, <<1>>, 0) ELSE kept
       IN  IF BitLen(m) > Precision
             THEN [m |-> Shr(m, 1), e |-> e + drop + 1]
             ELSE [m |-> m, e |-> e + drop]

\* the number a decimal literal n / d denotes (d a power of ten up to 10^5)
Number(n, d) ==
  LET qr == DivDigits(Shl(NatDigits(n), 80), d)
  IN  Round(Strip(qr.q), 0 - 80, qr.r # 0)

Min(i, j) == IF i <= j THEN i ELSE j

\* x * y
Times(x, y) == Round(MulDigits(x.m, y.m), x.e + y.e, FALSE)

\* x + y
Plus(x, y) ==
  IF x.m = <<>> THEN y
  ELSE IF y.m = <<>> THEN x
  ELSE LET e == Min(x.e, y.e)
       IN  Round(AddDigits(Shl(x.m, x.e - e), Shl(y.m, y.e - e), 0), e, FALSE)

\* x >= y
Geq(x, y) ==
  IF y.m = <<>> THEN TRUE
  ELSE IF x.m = <<>> THEN FALSE
  ELSE LET e == Min(x.e, y.e)
       IN  GeqDigits(Shl(x.m, x.e - e), Shl(y.m, y.e - e))

\* -------------------------------------------------------------- the state
VARIABLES
  apiBuild,       \* which getAIMessage definition the build binds
  messages,       \* ChatWindow: the message history
  isLoading,      \* ChatWindow: the chat-turn latch
  chatCalls,      \* POST /chat requests awaiting their response
  cartItems,      \* App: the cart
  localStorage,   \* the item stored under 'partselect_cart'
  pendingAdds,    \* handleAddToCart calls awaiting POST /cart/add, per part
  remoteCart,     \* the server's cart: quantity added per product
  localAdds,      \* times the addToCart updater ran, per product
  cartEdited,     \* a quantity change, removal or checkout has run
  isCartOpen,     \* App: the cart modal is shown
  isProcessing,   \* CartModal: the checkout latch
  checkouts,      \* order ids of checkouts awaiting their 1500 ms timer
  startedOn,      \* the cart each of them was started on
  clock,          \* Date.now(), in checkouts started
  lastOrderId,    \* App: last completed order id (0: null)
  orderComplete,  \* App: the order confirmation is shown
  hideTimers,     \* 5000 ms auto-hide timers not yet fired: the order each was armed for
  app,            \* the App component: "mounting" (rendered, effects not yet run),
                  \* "restoring" (a loaded cart is waiting for its render),
                  \* "running", or "crashed" (unmounted by an uncaught error)
  savedCart,      \* the text the load effect read
  setItemThrows   \* localStorage.setItem throws (quota exceeded, storage denied)

vars ==
  <<apiBuild, messages, isLoading, chatCalls, cartItems, localStorage, pendingAdds,
    remoteCart, localAdds, cartEdited, isCartOpen, isProcessing, checkouts,
    startedOn, clock, lastOrderId, orderComplete, hideTimers, app, savedCart, setItemThrows>>

\* what no handler writes
envVars == <<apiBuild, savedCart, setItemThrows>>

chatVars == <<messages, isLoading, chatCalls>>
cartVars == <<cartItems, localStorage, cartEdited>>
addVars == <<pendingAdds, remoteCart, localAdds>>
checkoutVars ==
  <<isProcessing, checkouts, startedOn, clock, lastOrderId, orderComplete, hideTimers>>

InFlightAdds == pendingAdds[P1] + pendingAdds[P2]

\* messages that operations already started are still going to append
Owed == InFlightAdds + Len(chatCalls)

\* Mount with nothing stored: the load effect finds no item, the save
\* effect stores the empty cart.
Init ==
  /\ apiBuild \in ApiBuilds
  /\ messages = defaultMessage
  /\ isLoading = FALSE
  /\ chatCalls = <<>>
  /\ cartItems = <<>>
  /\ localStorage = JSONstringify(<<>>)
  /\ pendingAdds = [p \in Parts |-> 0]
  /\ remoteCart = [id \in PartIds |-> 0]
  /\ localAdds = [id \in PartIds |-> 0]
  /\ cartEdited = FALSE
  /\ isCartOpen = FALSE
  /\ isProcessing = FALSE
  /\ checkouts = <<>>
  /\ startedOn = <<>>
  /\ clock = 0
  /\ lastOrderId = 0
  /\ orderComplete = FALSE
  /\ hideTimers = <<>>
  /\ app = "running"
  /\ savedCart = NoItem
  /\ setItemThrows = FALSE

\* ------------------------------------------------------------- ChatWindow
\* the body of the POST /chat request getAIMessage(input) sends.  handleSend
\* passes the input alone: the definition that has a conversationHistory
\* parameter falls back on its default [], the other one sends [] always.
chatRequestBody(build, input) ==
  IF build = "rethrow"
    THEN [message |-> input, conversation_history |-> <<>>]
    ELSE [message |-> input, conversation_history |-> <<>>]

\* mutation: the updater puts the new message first
appendMessageFront(prevMessages, m) == <<m>> \o prevMessages

\* the updater of every setMessages call: prevMessages => [...prevMessages, m]
appendMessage(prevMessages, m) == Append(prevMessages, m)

\* the updater applied for each message of `ms` (none or one)
appendAll(prevMessages, ms) ==
  IF ms = <<>> THEN prevMessages ELSE appendMessage(prevMessages, ms[1])

\* mutation: the entry test of handleSend without the latch
SendAcceptedIgnoresLatch(input, loading) == trim(input) # <<>>

\* the test at the entry of handleSend
SendAccepted(input, loading) == trim(input) # <<>> /\ ~loading

\* handleSend up to its await.  A submit the entry test rejects changes
\* nothing and is a stuttering step.
HandleSend(input) ==
  /\ app = "running"
  /\ SendAccepted(input, isLoading)
  /\ Len(messages) + Owed + 2 <= MaxMessages
  /\ messages' = appendMessage(messages, [role |-> "user", content |-> input])
  /\ isLoading' = TRUE
  /\ chatCalls' = Append(chatCalls, chatRequestBody(apiBuild, input))
  /\ UNCHANGED <<envVars, app, cartVars, addVars, isCartOpen, checkoutVars>>

\* the assistant message handleSend builds from what getAIMessage returned
formattedMessage(newMessage) ==
  [role |-> "assistant",
   content |-> OrElse(newMessage, "message", SorryText),
   parts |-> OrEmptyList(newMessage, "parts")]

\* what handleSend appends once getAIMessage has settled
ChatReply(outcome) ==
  IF outcome.threw THEN errorMessage ELSE formattedMessage(outcome.value)

\* mutation: the latch is cleared at the end of the try block only
LatchClearedOnSuccessOnly(outcome) == outcome.threw

\* the latch after handleSend has settled: the finally block clears it
\* whatever the outcome
LatchAfterTurn(outcome) == FALSE

\* the response of POST /chat arrives: handleSend resumes after its await
ChatSettle(resp) ==
  /\ app = "running"
  /\ chatCalls # <<>>
  /\ messages' = appendMessage(messages, ChatReply(getAIMessage(apiBuild, resp)))
  /\ isLoading' = LatchAfterTurn(getAIMessage(apiBuild, resp))
  /\ chatCalls' = Tail(chatCalls)
  /\ UNCHANGED <<envVars, app, cartVars, addVars, isCartOpen, checkoutVars>>

\* a product card is rendered for every part of every message
OnCard(part) ==
  \E i \in 1..Len(messages) :
    /\ "parts" \in DOMAIN messages[i]
    /\ \E j \in 1..Len(messages[i].parts) : messages[i].parts[j] = part

HandleViewDetails(part) ==
  /\ app = "running"
  /\ OnCard(part)
  /\ Len(messages) + Owed + 1 <= MaxMessages
  /\ messages' = appendMessage(messages, detailMessage(part))
  /\ UNCHANGED <<envVars, app, isLoading, chatCalls, cartVars, addVars, isCartOpen, checkoutVars>>

\* mutation: the cart is updated before the api call is awaited
addToCartOptimistic(prevItems, part, resp) ==
  [applied |-> TRUE, items |-> AddItem(prevItems, part),
   result |-> IF apiAddToCart(resp) THEN "true" ELSE "false"]

\* mutation: the catch block rethrows instead of returning false
addToCartRethrows(prevItems, part, resp) ==
  IF apiAddToCart(resp)
    THEN [applied |-> TRUE, items |-> AddItem(prevItems, part), result |-> "true"]
    ELSE [applied |-> FALSE, items |-> prevItems, result |-> "threw"]

\* mutation: the cart is computed from the cartItems of the render that
\* created the handler, the first one, and not by an updater
addToCartStaleClosure(prevItems, part, resp) ==
  IF apiAddToCart(resp)
    THEN [applied |-> TRUE, items |-> AddItem(<<>>, part), result |-> "true"]
    ELSE [applied |-> FALSE, items |-> prevItems, result |-> "false"]

\* App.addToCart once the api call has settled: whether the setCartItems
\* updater is run, the cart it leaves, and what the caller is given
\* ("true", "false", or "threw" for an exception)
addToCart(prevItems, part, resp) ==
  IF apiAddToCart(resp)
    THEN [applied |-> TRUE, items |-> AddItem(prevItems, part), result |-> "true"]
    ELSE [applied |-> FALSE, items |-> prevItems, result |-> "false"]

\* what handleAddToCart appends for a result of addToCart
AddNotice(result, part) ==
  IF result = "true" THEN <<successMessage(part)>>
  ELSE IF result = "threw" THEN <<addErrorMessage(part)>>
  ELSE <<>>

\* the Add to Cart button of a product card: handleAddToCart and addToCart
\* up to the await of the api call
HandleAddToCart(part) ==
  /\ app = "running"
  /\ OnCard(part)
  /\ InFlightAdds < MaxInFlight
  /\ remoteCart[part.partselect_number] + pendingAdds[part] < MaxRemote
  /\ Len(messages) + Owed + 1 <= MaxMessages
  /\ pendingAdds' = [pendingAdds EXCEPT ![part] = @ + 1]
  /\ UNCHANGED <<envVars, app, chatVars, cartVars, remoteCart, localAdds, isCartOpen, checkoutVars>>

\* the response of POST /cart/add arrives: addToCart resumes, returns, and
\* handleAddToCart resumes with its result
AddSettle(part, resp) ==
  /\ app = "running"
  /\ pendingAdds[part] > 0
  /\ pendingAdds' = [pendingAdds EXCEPT ![part] = @ - 1]
  /\ remoteCart' = [remoteCart EXCEPT ![part.partselect_number] =
                      IF ServerApplied(resp) THEN @ + 1 ELSE @]
  /\ LET r == addToCart(cartItems, part, resp) IN
       /\ cartItems' = r.items
       /\ localStorage' = IF r.applied
                            THEN SaveEffect(localStorage, r.items, setItemThrows)
                            ELSE localStorage
       /\ app' = AfterError(r.applied /\ setItemThrows)
       /\ localAdds' = [localAdds EXCEPT ![part.partselect_number] =
                          IF r.applied THEN @ + 1 ELSE @]
       /\ messages' = appendAll(messages, AddNotice(r.result, part))
  /\ UNCHANGED <<envVars, isLoading, chatCalls, cartEdited, isCartOpen, checkoutVars>>

\* ------------------------------------------------------------------- App
\* updateCartQuantity(index, newQuantity) and the save effect
UpdateCartQuantity(index, newQuantity) ==
  /\ app = "running"
  /\ cartItems' = SetQuantity(cartItems, index, newQuantity)
  /\ localStorage' = SaveEffect(localStorage, cartItems', setItemThrows)
  /\ app' = AfterError(setItemThrows)
  /\ cartEdited' = TRUE
  /\ UNCHANGED <<envVars, chatVars, addVars, isCartOpen, checkoutVars>>

\* removeFromCart(index) and the save effect
RemoveFromCart(index) ==
  /\ app = "running"
  /\ cartItems' = RemoveLine(cartItems, index)
  /\ localStorage' = SaveEffect(localStorage, cartItems', setItemThrows)
  /\ app' = AfterError(setItemThrows)
  /\ cartEdited' = TRUE
  /\ UNCHANGED <<envVars, chatVars, addVars, isCartOpen, checkoutVars>>

\* the cart button of the header
OpenCart ==
  /\ app = "running"
  /\ ~isCartOpen
  /\ isCartOpen' = TRUE
  /\ UNCHANGED <<envVars, app, chatVars, cartVars, addVars, checkoutVars>>

\* onClose of the modal (the x button or the overlay)
CloseCart ==
  /\ app = "running"
  /\ isCartOpen
  /\ isCartOpen' = FALSE
  /\ UNCHANGED <<envVars, app, chatVars, cartVars, addVars, checkoutVars>>

\* ------------------------------------------------------------- CartModal
\* Math.max(1, quantity - 1)
DecrementTo(quantity) == IF quantity - 1 > 1 THEN quantity - 1 ELSE 1

\* the quantity the "+" control asks for
IncrementTo(quantity) == quantity + 1

\* mutation: the controls of the lines are disabled during a chat turn
LineShownWhenIdle(index) == ~isLoading /\ isCartOpen /\ index \in 0..(Len(cartItems) - 1)

\* the lines of the modal are rendered when it is open and the cart is not empty
LineShown(index) == isCartOpen /\ index \in 0..(Len(cartItems) - 1)

\* a price or a quantity as the JS number the arithmetic works on: prices
\* are kept in cents here, and a price of 4495 is the number 44.95
PriceNumber(cents) == Number(cents, 100)
QuantityNumber(quantity) == Number(quantity, 1)

RECURSIVE Reduce(_, _)
\* cartItems.reduce((sum, item) => sum + (item.price * item.quantity), sum)
Reduce(items, sum) ==
  IF items = <<>> THEN sum
  ELSE Reduce(Tail(items),
              Plus(sum, Times(PriceNumber(Head(items).price),
                              QuantityNumber(Head(items).quantity))))

\* the totals the modal computes when it renders
subtotal(items) == Reduce(items, Zero)
shipping(items) == IF Geq(subtotal(items), Number(50, 1)) THEN Zero ELSE Number(1599, 100)
tax(items) == Times(subtotal(items), Number(85, 1000))
total(items) == Plus(Plus(subtotal(items), shipping(items)), tax(items))

\* the "-" control of line `index`
ClickMinus(index) ==
  /\ LineShown(index)
  /\ UpdateCartQuantity(index, DecrementTo(cartItems[index + 1].quantity))

\* the "+" control of line `index`
ClickPlus(index) ==
  /\ LineShown(index)
  /\ cartItems[index + 1].quantity < MaxQty
  /\ UpdateCartQuantity(index, IncrementTo(cartItems[index + 1].quantity))

\* the Remove control of line `index`
ClickRemove(index) ==
  /\ LineShown(index)
  /\ RemoveFromCart(index)

\* mutation: the checkout button is never disabled
CheckoutEnabledAlways(processing) == TRUE

\* disabled={isProcessing} of the checkout button
CheckoutEnabled(processing) == ~processing

\* the checkout button: CartModal.handleCheckout and App.handleCheckout up
\* to the 1500 ms timer
HandleCheckout ==
  /\ app = "running"
  /\ isCartOpen
  /\ cartItems # <<>>
  /\ CheckoutEnabled(isProcessing)
  /\ clock < MaxCheckouts
  /\ isProcessing' = TRUE
  /\ clock' = clock + 1
  /\ checkouts' = Append(checkouts, clock')
  /\ UNCHANGED <<envVars, app, chatVars, cartVars, addVars, isCartOpen, lastOrderId,
                 orderComplete, hideTimers>>

\* the checkout button, without and with the history of the carts the
\* checkouts were started on.  The history is written only in CheckoutLogSpec.
ClickCheckout == HandleCheckout /\ UNCHANGED startedOn
ClickCheckoutLogged == HandleCheckout /\ startedOn' = Append(startedOn, cartItems)

\* mutation: the timer callback does not clear the cart
CheckedOutCartKept(prevItems) == prevItems

\* setCartItems([]) of the timer callback
CheckedOutCart(prevItems) == <<>>

\* the 1500 ms timer of handleCheckout fires; resolve() releases the
\* finally block of CartModal.handleCheckout
CheckoutCompletes ==
  /\ app = "running"
  /\ checkouts # <<>>
  /\ lastOrderId' = Head(checkouts)
  /\ orderComplete' = TRUE
  /\ cartItems' = CheckedOutCart(cartItems)
  /\ localStorage' = SaveEffect(localStorage, cartItems', setItemThrows)
  /\ app' = AfterError(setItemThrows)
  /\ cartEdited' = TRUE
  /\ isCartOpen' = FALSE
  /\ hideTimers' = Append(hideTimers, Head(checkouts))
  /\ checkouts' = Tail(checkouts)
  /\ isProcessing' = FALSE
  /\ UNCHANGED <<envVars, chatVars, addVars, clock>>

\* mutation: the timer callback also has the server clear its cart
CheckoutTimerClearsRemote ==
  /\ app = "running"
  /\ checkouts # <<>>
  /\ lastOrderId' = Head(checkouts)
  /\ orderComplete' = TRUE
  /\ cartItems' = CheckedOutCart(cartItems)
  /\ localStorage' = SaveEffect(localStorage, cartItems', setItemThrows)
  /\ app' = AfterError(setItemThrows)
  /\ cartEdited' = TRUE
  /\ isCartOpen' = FALSE
  /\ hideTimers' = Append(hideTimers, Head(checkouts))
  /\ checkouts' = Tail(checkouts)
  /\ isProcessing' = FALSE
  /\ remoteCart' = [id \in PartIds |-> 0]
  /\ UNCHANGED <<envVars, chatVars, pendingAdds, localAdds, clock, startedOn>>

\* the timer's callback, without and with the history
CheckoutTimer == CheckoutCompletes /\ UNCHANGED startedOn
CheckoutTimerLogged == CheckoutCompletes /\ startedOn' = Tail(startedOn)

\* a 5000 ms auto-hide timer fires; the timers have one delay, so they fire
\* in the order they were armed
HideTimer ==
  /\ app = "running"
  /\ hideTimers # <<>>
  /\ hideTimers' = Tail(hideTimers)
  /\ orderComplete' = FALSE
  /\ UNCHANGED <<envVars, app, chatVars, cartVars, addVars, isCartOpen, isProcessing,
                 checkouts, startedOn, clock, lastOrderId>>

\* the Continue Shopping button of the order confirmation
ContinueShopping ==
  /\ app = "running"
  /\ orderComplete
  /\ orderComplete' = FALSE
  /\ UNCHANGED <<envVars, app, chatVars, cartVars, addVars, isCartOpen, isProcessing,
                 checkouts, startedOn, clock, lastOrderId, hideTimers>>

\* arguments a caller of updateCartQuantity / removeFromCart may pass
Indexes == 0..Len(cartItems)
Quantities == (0 - 1)..MaxQty

Next ==
  \/ \E input \in Inputs : HandleSend(input)
  \/ \E resp \in ChatResponses : ChatSettle(resp)
  \/ \E part \in Parts : HandleViewDetails(part)
  \/ \E part \in Parts : HandleAddToCart(part)
  \/ \E part \in Parts, resp \in CartResponses : AddSettle(part, resp)
  \/ \E index \in Indexes, q \in Quantities : UpdateCartQuantity(index, q)
  \/ \E index \in Indexes : RemoveFromCart(index)
  \/ OpenCart
  \/ CloseCart
  \/ \E index \in Indexes : ClickMinus(index)
  \/ \E index \in Indexes : ClickPlus(index)
  \/ \E index \in Indexes : ClickRemove(index)
  \/ ClickCheckout
  \/ CheckoutTimer
  \/ HideTimer
  \/ ContinueShopping

Spec == Init /\ [][Next]_vars

\* the events of the ChatWindow component alone
ChatWindowNext ==
  \/ \E input \in Inputs : HandleSend(input)
  \/ \E resp \in ChatResponses : ChatSettle(resp)
  \/ \E part \in Parts : HandleViewDetails(part)
  \/ \E part \in Parts : HandleAddToCart(part)
  \/ \E part \in Parts, resp \in CartResponses : AddSettle(part, resp)

\* the ChatWindow component, where every chat request is answered or fails
\* in the end
FairChatSpec ==
  Init /\ [][ChatWindowNext]_vars /\ WF_vars(\E resp \in ChatResponses : ChatSettle(resp))

\* the events a user of the rendered page can cause, and the responses and
\* timers they start: updateCartQuantity and removeFromCart are reached
\* through the controls of the cart modal only
UserNext ==
  \/ \E input \in Inputs : HandleSend(input)
  \/ \E resp \in ChatResponses : ChatSettle(resp)
  \/ \E part \in Parts : HandleViewDetails(part)
  \/ \E part \in Parts : HandleAddToCart(part)
  \/ \E part \in Parts, resp \in CartResponses : AddSettle(part, resp)
  \/ OpenCart
  \/ CloseCart
  \/ \E index \in Indexes : ClickMinus(index)
  \/ \E index \in Indexes : ClickPlus(index)
  \/ \E index \in Indexes : ClickRemove(index)
  \/ ClickCheckout
  \/ CheckoutTimer
  \/ HideTimer
  \/ ContinueShopping

UserSpec == Init /\ [][UserNext]_vars

\* the same events, with the history of the carts the checkouts were
\* started on
CheckoutLogNext ==
  \/ \E input \in Inputs : HandleSend(input)
  \/ \E resp \in ChatResponses : ChatSettle(resp)
  \/ \E part \in Parts : HandleViewDetails(part)
  \/ \E part \in Parts : HandleAddToCart(part)
  \/ \E part \in Parts, resp \in CartResponses : AddSettle(part, resp)
  \/ OpenCart
  \/ CloseCart
  \/ \E index \in Indexes : ClickMinus(index)
  \/ \E index \in Indexes : ClickPlus(index)
  \/ \E index \in Indexes : ClickRemove(index)
  \/ ClickCheckoutLogged
  \/ CheckoutTimerLogged
  \/ HideTimer
  \/ ContinueShopping

CheckoutLogSpec == Init /\ [][CheckoutLogNext]_vars

\* ---------------------------------------------------------- session start
\* a cart line of `part` with quantity q
Line(part, q) ==
  [partselect_number |-> part.partselect_number, name |-> part.name,
   price |-> part.price, quantity |-> q]

\* products of the catalog that earlier sessions were shown
Q1 == [partselect_number |-> "PS3", name |-> "Water Filter", price |-> 1254]
Q2 == [partselect_number |-> "PS4", name |-> "Door Gasket", price |-> 1981]
Q3 == [partselect_number |-> "PS5", name |-> "Drain Hose", price |-> 1765]

\* carts an earlier session, or anything else that writes the key, may
\* have stored; the last two hold a line whose quantity is not positive
StoredCarts ==
  {<<>>,
   <<Line(P1, 1)>>,
   <<Line(P1, MaxQty), Line(P2, 1)>>,
   <<Line(P2, 1), Line(P1, MaxQty)>>,
   <<Line(Q1, 1), Line(Q2, 1), Line(Q3, 1)>>,
   <<Line(P1, 0)>>,
   <<Line(P2, 1), Line(P1, 0 - 1)>>}

\* what a session may find under the key when it starts
StoredTexts ==
  {NoItem, GarbageText, NullText, ObjectText} \cup {JSONstringify(c) : c \in StoredCarts}

\* the App has rendered for the first time, with useState's [] as its cart;
\* its effects have not run yet
SessionInit ==
  /\ apiBuild \in ApiBuilds
  /\ messages = defaultMessage
  /\ isLoading = FALSE
  /\ chatCalls = <<>>
  /\ cartItems = <<>>
  /\ localStorage \in StoredTexts
  /\ pendingAdds = [p \in Parts |-> 0]
  /\ remoteCart = [id \in PartIds |-> 0]
  /\ localAdds = [id \in PartIds |-> 0]
  /\ cartEdited = FALSE
  /\ isCartOpen = FALSE
  /\ isProcessing = FALSE
  /\ checkouts = <<>>
  /\ startedOn = <<>>
  /\ clock = 0
  /\ lastOrderId = 0
  /\ orderComplete = FALSE
  /\ hideTimers = <<>>
  /\ app = "mounting"
  /\ savedCart = NoItem
  /\ setItemThrows = FALSE

\* the effects of the first render run, in the order they are declared: the
\* load effect reads the item and, when it parses, asks for the parsed
\* value to become the cart; the save effect stores the cart of the first
\* render, which is []
MountEffects ==
  /\ app = "mounting"
  /\ savedCart' = localStorage
  /\ localStorage' = SaveEffect(localStorage, cartItems, setItemThrows)
  /\ app' = IF setItemThrows THEN "crashed"
            ELSE IF LoadSetsCart(localStorage) THEN "restoring"
            ELSE "running"
  /\ UNCHANGED <<apiBuild, setItemThrows, chatVars, cartItems, cartEdited, addVars,
                 isCartOpen, checkoutVars>>

\* the render the load effect asked for, and the save effect after it.  A
\* parsed value that is no array has no reduce: the render throws a
\* TypeError and the App is unmounted.
MountRerender ==
  /\ app = "restoring"
  /\ IF ParsesToArray(savedCart)
       THEN /\ cartItems' = JSONparse(savedCart)
            /\ localStorage' = SaveEffect(localStorage, cartItems', setItemThrows)
            /\ app' = AfterError(setItemThrows)
       ELSE /\ cartItems' = cartItems
            /\ localStorage' = localStorage
            /\ app' = "crashed"
  /\ UNCHANGED <<envVars, chatVars, cartEdited, addVars, isCartOpen, checkoutVars>>

\* the storage starts to refuse writes
StorageFills ==
  /\ ~setItemThrows
  /\ app # "crashed"
  /\ setItemThrows' = TRUE
  /\ UNCHANGED <<apiBuild, savedCart, app, chatVars, cartVars, addVars, isCartOpen,
                 checkoutVars>>

\* the page is loaded again: a new session starts on what the storage and
\* the server hold; the state of the components, the requests and the
\* timers of the old page are gone
Reload ==
  /\ app \in {"running", "crashed"}
  /\ messages' = defaultMessage
  /\ isLoading' = FALSE
  /\ chatCalls' = <<>>
  /\ cartItems' = <<>>
  /\ pendingAdds' = [p \in Parts |-> 0]
  /\ localAdds' = [id \in PartIds |-> 0]
  /\ cartEdited' = FALSE
  /\ isCartOpen' = FALSE
  /\ isProcessing' = FALSE
  /\ checkouts' = <<>>
  /\ startedOn' = <<>>
  /\ clock' = 0
  /\ lastOrderId' = 0
  /\ orderComplete' = FALSE
  /\ hideTimers' = <<>>
  /\ app' = "mounting"
  /\ savedCart' = NoItem
  /\ UNCHANGED <<apiBuild, localStorage, remoteCart, setItemThrows>>

\* sessions from their first render on: the start, the cart modal with the
\* cart the start restored, and the next load of the page
SessionNext ==
  \/ MountEffects
  \/ MountRerender
  \/ Reload
  \/ StorageFills
  \/ OpenCart
  \/ CloseCart
  \/ \E index \in Indexes : ClickMinus(index)
  \/ \E index \in Indexes : ClickPlus(index)
  \/ \E index \in Indexes : ClickRemove(index)
  \/ ClickCheckout
  \/ CheckoutTimer
  \/ HideTimer
  \/ ContinueShopping

SessionSpec == SessionInit /\ [][SessionNext]_vars

\* the events of a user's session whose storage may start to refuse writes
StorageNext ==
  \/ StorageFills
  \/ \E input \in Inputs : HandleSend(input)
  \/ \E resp \in ChatResponses : ChatSettle(resp)
  \/ \E part \in Parts : HandleViewDetails(part)
  \/ \E part \in Parts : HandleAddToCart(part)
  \/ \E part \in Parts, resp \in CartResponses : AddSettle(part, resp)
  \/ OpenCart
  \/ CloseCart
  \/ \E index \in Indexes : ClickMinus(index)
  \/ \E index \in Indexes : ClickPlus(index)
  \/ \E index \in Indexes : ClickRemove(index)
  \/ ClickCheckout
  \/ CheckoutTimer
  \/ HideTimer
  \/ ContinueShopping

StorageSpec == Init /\ [][StorageNext]_vars

\* ----------------------------------------------------------------- cart
LinesOf(items, id) == {i \in 1..Len(items) : items[i].partselect_number = id}

QuantityOf(items, id) ==
  IF LinesOf(items, id) = {} THEN 0 ELSE items[CHOOSE i \in LinesOf(items, id) : TRUE].quantity

\* C1: in every reachable state the cart holds at most one line per
\* product identifier.
C1_OneLinePerProduct ==
  \A id \in PartIds : Cardinality(LinesOf(cartItems, id)) <= 1

\* both products are in the cart and one of them was added twice
C1_Witness ==
  /\ Len(cartItems) = 2
  /\ localAdds["PS1"] = 2
  /\ QuantityOf(cartItems, "PS1") >= 2

\* C2: as long as nothing but addToCart has touched the cart, each product
\* added n times with success has exactly one line, of quantity n, and a
\* product never added with success has none.
C2_QuantityIsNumberOfAdds ==
  ~cartEdited =>
    \A id \in PartIds :
      /\ Cardinality(LinesOf(cartItems, id)) = (IF localAdds[id] > 0 THEN 1 ELSE 0)
      /\ QuantityOf(cartItems, id) = localAdds[id]

\* two adds of PS2 were outstanding together and both have succeeded
C2_Witness ==
  /\ ~cartEdited
  /\ localAdds["PS2"] = 2
  /\ pendingAdds[P2] = 0
  /\ QuantityOf(cartItems, "PS2") = 2

\* C3: no reachable cart has a line of quantity <= 0.
C3_QuantityPositive ==
  \A i \in 1..Len(cartItems) : cartItems[i].quantity >= 1

\* both products were added, the cart was edited without a checkout, and
\* one line is left
C3_Witness ==
  /\ cartEdited
  /\ clock = 0
  /\ localAdds["PS1"] > 0
  /\ localAdds["PS2"] > 0
  /\ Len(cartItems) = 1
  /\ cartItems[1].quantity = 1

\* C4: for every product, the addToCart updater has run at most as often
\* as the server has handled an add of that product.
C4_NoLocalAddWithoutRemoteAdd ==
  \A id \in PartIds : localAdds[id] <= remoteCart[id]

\* a confirmed add next to an add the server handled but the client lost
C4_Witness ==
  /\ localAdds["PS1"] = 1
  /\ remoteCart["PS1"] = 2
  /\ QuantityOf(cartItems, "PS1") = 1

\* C5: a step in which an add-to-cart request fails leaves the cart and
\* the stored cart as they were, and addToCart returns false: nothing is
\* appended to the history, neither a success nor an error notice.
C5_FailedAddChangesNothing ==
  [][\A part \in Parts : \A resp \in CartResponses :
       (resp.kind \in FailureKinds /\ AddSettle(part, resp)) =>
         /\ cartItems' = cartItems
         /\ localStorage' = localStorage
         /\ localStorage' = JSONstringify(cartItems')
         /\ localAdds' = localAdds
         /\ messages' = messages
         /\ addToCart(cartItems, part, resp).result = "false"]_vars

\* an add of PS1 has failed with one line in the cart, and cart and
\* storage hold that line
C5_Witness ==
  /\ remoteCart["PS1"] > localAdds["PS1"]
  /\ Len(cartItems) = 1
  /\ localStorage = JSONstringify(cartItems)
  /\ InFlightAdds = 0

\* ----------------------------------------------------------------- chat
UserPositions == {i \in 1..Len(messages) : messages[i].role = "user"}

\* C6: at most one chat request is outstanding; every user message of the
\* history and every request sent has text that is not blank; and while a
\* request is outstanding its user message is the last user message of the
\* history, so no submit was accepted after it.
C6_OneChatTurnAtATime ==
  /\ Len(chatCalls) <= 1
  /\ \A i \in UserPositions : trim(messages[i].content) # <<>>
  /\ \A k \in 1..Len(chatCalls) : trim(chatCalls[k].message) # <<>>
  /\ chatCalls # <<>> =>
       \E i \in UserPositions :
         /\ messages[i].content = chatCalls[1].message
         /\ \A j \in UserPositions : j <= i

\* a second turn is pending and a notice was appended after its user
\* message: a submit now is one the entry test rejects
C6_Witness ==
  /\ isLoading
  /\ Len(chatCalls) = 1
  /\ Cardinality(UserPositions) = 2
  /\ messages[Len(messages)].role = "assistant"
  /\ \A input \in Inputs : ~SendAccepted(input, isLoading)

ConnectivityTexts == {ConnectText, BackendDownText}

\* C7: a step in which an accepted chat turn fails appends exactly one
\* assistant message, and that message tells of a connectivity failure.
C7_FailedTurnAppendsConnectivityMessage ==
  [][\A resp \in ChatResponses :
       (resp.kind \in FailureKinds /\ ChatSettle(resp)) =>
         /\ Len(messages') = Len(messages) + 1
         /\ SubSeq(messages', 1, Len(messages)) = messages
         /\ messages'[Len(messages')].role = "assistant"
         /\ messages'[Len(messages')].content \in ConnectivityTexts]_vars

\* C8: a step in which an accepted chat turn succeeds with a response that
\* has a message text appends exactly one assistant message, whose content
\* is that text and whose parts are the response's parts, or none.
C8_SuccessfulTurnAppendsResponse ==
  [][\A resp \in ChatResponses :
       (/\ resp.kind = "ok"
        /\ "message" \in DOMAIN resp.data
        /\ resp.data.message # <<>>
        /\ ChatSettle(resp)) =>
         messages' = Append(messages,
                            [role |-> "assistant",
                             content |-> resp.data.message,
                             parts |-> OrEmptyList(resp.data, "parts")])]_vars

\* C9: the latch is set exactly while a chat request is outstanding, the
\* step that settles the request clears it on every outcome, and a set
\* latch is cleared in the end when requests settle in the end.
C9_LatchFollowsChatCall ==
  /\ [](isLoading <=> chatCalls # <<>>)
  /\ [][(\E resp \in ChatResponses : ChatSettle(resp)) => ~isLoading']_vars
  /\ (isLoading ~> ~isLoading)

\* the latch was set, cleared by a failed turn, and is set again
C9_Witness ==
  /\ isLoading
  /\ chatCalls # <<>>
  /\ Cardinality(UserPositions) = 2
  /\ \E i \in 1..Len(messages) : messages[i].content \in {ConnectText, SorryText}

\* C10: every step leaves the history it found as a prefix of the history
\* it leaves.
C10_HistoryAppendOnly ==
  [][/\ Len(messages') >= Len(messages)
     /\ SubSeq(messages', 1, Len(messages)) = messages]_vars

\* the history holds a user message, a reply with parts, a view-details
\* notice and an add-to-cart notice
C10_Witness ==
  /\ UserPositions # {}
  /\ \E i \in 1..Len(messages) : \E p \in Parts : messages[i] = detailMessage(p)
  /\ \E i \in 1..Len(messages) : \E p \in Parts : messages[i] = successMessage(p)

\* ------------------------------------------------------------- checkout
\* C11: no checkout is started on an empty cart, and no checkout completes
\* (records its order id and shows the order confirmation) on a cart that
\* is empty at that moment.
C11_NoCheckoutOfEmptyCart ==
  [][/\ ClickCheckout => cartItems # <<>>
     /\ CheckoutTimer => cartItems # <<>>]_vars

\* C12: the step that starts a checkout leaves the cart, the stored cart,
\* the last order id and the order-complete flag as they were; the id of a
\* pending checkout is not the last order id; and the step that records an
\* order id is the completion of the oldest pending checkout, which in that
\* one step empties the cart, stores the empty cart, records the id the
\* checkout generated at its start and sets the order-complete flag.
C12_CheckoutAppliesAtCompletion ==
  /\ [](\A k \in 1..Len(checkouts) : checkouts[k] # lastOrderId)
  /\ [][(Len(checkouts') > Len(checkouts)) =>
          (/\ cartItems' = cartItems
           /\ localStorage' = localStorage
           /\ lastOrderId' = lastOrderId
           /\ orderComplete' = orderComplete)]_vars
  /\ [][(lastOrderId' # lastOrderId \/ Len(checkouts') < Len(checkouts)) =>
          (/\ checkouts # <<>>
           /\ checkouts' = Tail(checkouts)
           /\ lastOrderId' = Head(checkouts)
           /\ orderComplete'
           /\ cartItems' = <<>>
           /\ localStorage' = JSONstringify(<<>>))]_vars

\* a first checkout has completed, the cart was filled again and a second
\* checkout is pending on it
C12_Witness ==
  /\ lastOrderId = 1
  /\ checkouts = <<2>>
  /\ cartItems # <<>>
  /\ localStorage = JSONstringify(cartItems)

\* C13: a step that clears a set order-complete flag is either the user's
\* dismissal or the auto-hide timer armed by the checkout whose confirmation
\* is shown, the last one completed; the timer of an earlier checkout does
\* not clear it.
C13_ConfirmationClearedByOwnTimerOrUser ==
  [][(orderComplete /\ ~orderComplete') =>
       \/ ContinueShopping
       \/ (HideTimer /\ Head(hideTimers) = lastOrderId)]_vars

\* ------------------------------------------------------------- latches
\* C14: at most one add-to-cart request is outstanding at any time: an
\* addToCart called while another has not settled issues no request.
C14_OneAddInFlight ==
  InFlightAdds <= 1

\* C15: at most one checkout is pending at any time; the latch is set
\* exactly while a checkout is pending; no step starts a checkout while
\* the latch is set; and the step that completes the pending checkout
\* clears the latch.
C15_OneCheckoutAtATime ==
  /\ [](Len(checkouts) <= 1)
  /\ [](isProcessing <=> checkouts # <<>>)
  /\ [][isProcessing => Len(checkouts') <= Len(checkouts)]_vars
  /\ [][(Len(checkouts') < Len(checkouts)) => ~isProcessing']_vars

\* a second checkout is pending after the first one has completed and
\* cleared the latch; the modal shows the checkout button, disabled
C15_Witness ==
  /\ isProcessing
  /\ clock = 2
  /\ Len(checkouts) = 1
  /\ isCartOpen
  /\ cartItems # <<>>
  /\ ~CheckoutEnabled(isProcessing)

\* ----------------------------------------------------------- requests
\* C16: the request of every accepted submit carries, next to the new
\* message, the history as it was when the submit was accepted.
C16_ChatRequestCarriesHistory ==
  [][\A input \in Inputs :
       HandleSend(input) =>
         /\ chatCalls'[Len(chatCalls')].message = input
         /\ chatCalls'[Len(chatCalls')].conversation_history = messages]_vars

\* ---------------------------------------------------------- persistence
\* C17: a step of a running session whose save fails (the storage write
\* throws) leaves the session running: the error is swallowed, nothing is
\* unmounted, and the session goes on to accept operations.
C17_FailedSaveIsSwallowed ==
  [][(app = "running" /\ setItemThrows) => app' = "running"]_vars

\* a stored text that is a cart snapshot: the text of an array of lines,
\* each of positive quantity
ValidSnapshot(text) ==
  /\ text # NoItem
  /\ ~JSONparseThrows(text)
  /\ ParsesToArray(text)
  /\ \A i \in 1..Len(text) : text[i][4] >= 1

\* C18: when the start of a session ends and the item it read is not a
\* cart snapshot (nothing stored, text that does not parse, or JSON that is
\* no list of lines of positive quantity), the session is running and its
\* cart is empty.  (Starts whose storage refuses writes are left aside.)
C18_InvalidPayloadIsAbsent ==
  [][(/\ app \in {"mounting", "restoring"}
      /\ app' \notin {"mounting", "restoring"}
      /\ ~setItemThrows
      /\ ~ValidSnapshot(savedCart')) =>
       (app' = "running" /\ cartItems' = <<>>)]_vars

\* the lines and the carts of up to two lines a session may have saved
CartLines == {Line(p, q) : p \in Parts, q \in Quantities}
Carts ==
  {<<>>} \cup {<<l>> : l \in CartLines} \cup {<<l, m>> : l \in CartLines, m \in CartLines}

RECURSIVE Cents(_)
Cents(items) ==
  IF items = <<>> THEN 0 ELSE Head(items).price * Head(items).quantity + Cents(Tail(items))

\* the shipping fee of a subtotal, in cents
FeeCents(cents) == IF cents >= 5000 THEN 0 ELSE 1599

\* C20: for the cart the open modal shows (lines of positive quantity),
\* the subtotal is the sum of price * quantity, the shipping fee is 0 when
\* that sum is at least 50.00 and 15.99 otherwise, the tax is the sum times
\* 0.085, and the total is the sum of the three: each is the number that
\* the decimal amount denotes.
C20_TotalsAreTheDecimalAmounts ==
  (/\ app = "running"
   /\ isCartOpen
   /\ \A i \in 1..Len(cartItems) : cartItems[i].quantity >= 1) =>
    /\ subtotal(cartItems) = Number(Cents(cartItems), 100)
    /\ shipping(cartItems) = Number(FeeCents(Cents(cartItems)), 100)
    /\ tax(cartItems) = Number(Cents(cartItems) * 85, 100000)
    /\ total(cartItems) =
         Number(Cents(cartItems) * 1085 + FeeCents(Cents(cartItems)) * 1000, 100000)

\* -------------------------------------------------------------- reducer
\* the indexes of the lines of a cart, 0-based as in the source
ValidIndexes(items) == 0..(Len(items) - 1)

\* C21: for the cart of every reachable state, every index of a line and
\* every quantity <= 0, updateCartQuantity leaves the cart removeFromCart
\* leaves, which is the cart without that line.
C21_ZeroQuantityIsRemoval ==
  \A index \in ValidIndexes(cartItems) :
    \A q \in {n \in Quantities : n <= 0} :
      /\ SetQuantity(cartItems, index, q) = RemoveLine(cartItems, index)
      /\ Len(SetQuantity(cartItems, index, q)) = Len(cartItems) - 1

\* both products were added and the line of the first one is gone, with
\* no checkout: the second line has moved up
C21_Witness ==
  /\ cartEdited
  /\ clock = 0
  /\ localAdds["PS1"] = 1
  /\ localAdds["PS2"] = 1
  /\ cartItems = <<Line(P2, 1)>>
  /\ localStorage = JSONstringify(cartItems)

\* ---------------------------------------------------------------- gateway
Failed(responses) == {resp \in responses : resp.kind # "ok"}
Succeeded(responses) == {resp \in responses : resp.kind = "ok"}

\* C22: every gateway operation sends one request per invocation and none
\* when a response arrives, whether it failed or not, and its caller can
\* tell a failed request from every successful one: handleSend appends
\* another message for it, App.addToCart returns another result, and
\* getCart and clearCart throw instead of returning.
C22_OneRequestAndDistinctFailure ==
  /\ [](\A f \in Failed(ChatResponses), s \in Succeeded(ChatResponses) :
          ChatReply(getAIMessage(apiBuild, f)) # ChatReply(getAIMessage(apiBuild, s)))
  /\ [](\A f \in Failed(CartResponses), s \in Succeeded(CartResponses) :
          /\ addToCart(cartItems, P1, f).result # addToCart(cartItems, P1, s).result
          /\ getCart(f) # getCart(s)
          /\ clearCart(f) # clearCart(s))
  /\ [][\A input \in Inputs :
         HandleSend(input) => (Len(chatCalls') = Len(chatCalls) + 1)]_vars
  /\ [][\A resp \in ChatResponses :
         ChatSettle(resp) => (Len(chatCalls') = Len(chatCalls) - 1)]_vars
  /\ [][\A part \in Parts :
         HandleAddToCart(part) => (InFlightAdds' = InFlightAdds + 1)]_vars
  /\ [][\A part \in Parts, resp \in CartResponses :
         AddSettle(part, resp) => (InFlightAdds' = InFlightAdds - 1)]_vars

\* ---------------------------------------------------------------- latches
\* the bounds of the model leave room for one more message / one more add
MessageRoom(n) == Len(messages) + Owed + n <= MaxMessages
AddRoom(part) ==
  /\ InFlightAdds < MaxInFlight
  /\ remoteCart[part.partselect_number] + pendingAdds[part] < MaxRemote

\* C23: a latch gates its own kind only.  During a chat turn an add can be
\* started and completes into the cart, the controls of the cart lines and
\* the direct quantity change and removal act on the cart, and a checkout
\* can be started and completes; during a checkout or an add a message
\* can be submitted.
C23_LatchesGateTheirOwnKind ==
  /\ (app = "running" /\ isLoading) =>
       /\ \A part \in Parts :
            /\ (OnCard(part) /\ AddRoom(part) /\ MessageRoom(1)) =>
                 ENABLED HandleAddToCart(part)
            /\ pendingAdds[part] > 0 =>
                 ENABLED (/\ AddSettle(part, [kind |-> "ok"])
                          /\ cartItems' = AddItem(cartItems, part))
       /\ \A index \in ValidIndexes(cartItems) :
            /\ \A q \in 1..MaxQty :
                 ENABLED (/\ UpdateCartQuantity(index, q)
                          /\ cartItems'[index + 1].quantity = q)
            /\ ENABLED (RemoveFromCart(index) /\ Len(cartItems') = Len(cartItems) - 1)
            /\ isCartOpen =>
                 /\ ENABLED ClickMinus(index)
                 /\ ENABLED ClickRemove(index)
                 /\ cartItems[index + 1].quantity < MaxQty => ENABLED ClickPlus(index)
       /\ (isCartOpen /\ cartItems # <<>> /\ ~isProcessing /\ clock < MaxCheckouts) =>
            ENABLED ClickCheckout
       /\ checkouts # <<>> => ENABLED (CheckoutTimer /\ cartItems' = <<>>)
  /\ (app = "running" /\ ~isLoading /\ (isProcessing \/ InFlightAdds > 0)
        /\ MessageRoom(2)) =>
       ENABLED (/\ HandleSend(<<WS, "ice", WS, "maker", WS>>)
                /\ Len(messages') = Len(messages) + 1)

\* a chat turn and a checkout are pending together and the modal is open on
\* a cart of one line
C23_Witness ==
  /\ isLoading
  /\ chatCalls # <<>>
  /\ isProcessing
  /\ checkouts # <<>>
  /\ isCartOpen
  /\ Len(cartItems) = 1
\* ------------------------------------------------------------ persistence
\* C24: in every state where the App is running, which it is not during
\* its mount nor after a failed save, the stored item is the serialized
\* cart: every step that changes the cart has written it.
C24_StoredItemIsTheCart ==
  (app = "running" /\ ~setItemThrows) => localStorage = JSONstringify(cartItems)

\* a line was added and its quantity raised with the "+" control, and the
\* storage holds the line with the raised quantity
C24_Witness ==
  /\ app = "running"
  /\ ~setItemThrows
  /\ cartEdited
  /\ localAdds["PS1"] = 1
  /\ cartItems = <<Line(P1, 2)>>
  /\ localStorage = JSONstringify(<<Line(P1, 2)>>)
\* ---------------------------------------------------------- invalid index
\* what updateCartQuantity and removeFromCart hand their caller: neither
\* has a return value nor a throw, whatever the arguments
updateCartQuantityReturns(items, index, newQuantity) == "undefined"
removeFromCartReturns(items, index) == "undefined"

\* C25: updateCartQuantity and removeFromCart called with an index that is
\* no index of the cart leave the cart as it is and report the index as
\* out of range to their caller.
C25_InvalidIndexIsReported ==
  \A index \in Indexes \ ValidIndexes(cartItems) :
    /\ RemoveLine(cartItems, index) = cartItems
    /\ removeFromCartReturns(cartItems, index) # "undefined"
    /\ \A q \in Quantities :
         /\ SetQuantity(cartItems, index, q) = cartItems
         /\ updateCartQuantityReturns(cartItems, index, q) # "undefined"

\* ------------------------------------------------------------------ order
\* the product identifiers of the lines, in the order of the lines
Ids(items) == [i \in 1..Len(items) |-> items[i].partselect_number]

\* a sequence without its element of 0-based position `index`
Without(seq, index) == SubSeq(seq, 1, index) \o SubSeq(seq, index + 2, Len(seq))

Offers(part) == {part, [part EXCEPT !.price = @ + 500]}

\* C27: on every reachable cart a quantity change to a positive quantity at
\* an index of the cart yields the cart with that quantity in that line and
\* nothing else changed, and an add of a product that has a line, whatever
\* the price of the part added, yields the cart with that line's quantity
\* raised by one and nothing else changed, its price included.
C27_OnlyTheQuantityChanges ==
  /\ \A index \in ValidIndexes(cartItems) :
       \A q \in 1..MaxQty :
         SetQuantity(cartItems, index, q) = [cartItems EXCEPT ![index + 1].quantity = q]
  /\ \A part \in Parts :
       \A i \in LinesOf(cartItems, part.partselect_number) :
         \A offer \in Offers(part) :
           AddItem(cartItems, offer) = [cartItems EXCEPT ![i].quantity = @ + 1]

\* PS1 was added, then PS2, then PS1 again, and the "-" control took the
\* line of PS1 back to 1
C27_Witness ==
  /\ cartEdited
  /\ localAdds["PS1"] = 2
  /\ localAdds["PS2"] = 1
  /\ cartItems = <<Line(P1, 1), Line(P2, 1)>>
\* ------------------------------------------------------------ add notices
\* C28: the step in which the response of an add arrives appends exactly
\* one message, an assistant message: the success notice of the part when
\* the add was confirmed, and another text when the request failed.
C28_EveryAddIsAnswered ==
  [][\A part \in Parts, resp \in CartResponses :
       AddSettle(part, resp) =>
         /\ Len(messages') = Len(messages) + 1
         /\ SubSeq(messages', 1, Len(messages)) = messages
         /\ messages'[Len(messages')].role = "assistant"
         /\ (messages'[Len(messages')] = successMessage(part)) <=> apiAddToCart(resp)]_vars
\* ------------------------------------------------------------- local only
\* C29: the server's cart changes only in a step in which the response of
\* an add arrives, an add request is sent or consumed only by an add, and
\* a chat request only by a chat turn: a quantity change, a removal, the
\* start of a checkout and its completion send nothing.  So the server's
\* cart holds at least every add the local cart ever applied, also after a
\* checkout has emptied the local cart.
C29_EditsAndCheckoutAreLocal ==
  /\ [][remoteCart' # remoteCart =>
          \E part \in Parts, resp \in CartResponses : AddSettle(part, resp)]_vars
  /\ [][pendingAdds' # pendingAdds =>
          \/ \E part \in Parts : HandleAddToCart(part)
          \/ \E part \in Parts, resp \in CartResponses : AddSettle(part, resp)]_vars
  /\ [][chatCalls' # chatCalls =>
          \/ \E input \in Inputs : HandleSend(input)
          \/ \E resp \in ChatResponses : ChatSettle(resp)]_vars
  /\ [](\A id \in PartIds : remoteCart[id] >= localAdds[id])

\* a checkout of a cart with PS1 twice has completed: the local cart is
\* empty and the server still holds both adds
C29_Witness ==
  /\ lastOrderId = 1
  /\ checkouts = <<>>
  /\ cartItems = <<>>
  /\ localStorage = JSONstringify(<<>>)
  /\ localAdds["PS1"] = 2
  /\ remoteCart["PS1"] = 2
\* --------------------------------------------------------- checkout races
\* C30: when a checkout completes, every line the cart holds just before
\* the completion was in the cart, with the same quantity, when the
\* checkout was started: the completion discards nothing that was added
\* or changed in between.
C30_CheckoutOrdersTheCartItStartedOn ==
  [][CheckoutTimerLogged =>
       \A i \in 1..Len(cartItems) :
         \E j \in 1..Len(Head(startedOn)) : Head(startedOn)[j] = cartItems[i]]_vars
\* ---------------------------------------------------------- session start
\* C31: the stored item is read at the start of a session only; while a
\* cart snapshot that was read is waiting to become the cart, the stored
\* item is still that snapshot; and when the start ends, the cart is the
\* cart of the snapshot and the stored item is the snapshot.
C31_StartKeepsPersistedCart ==
  /\ [][savedCart' # savedCart => (MountEffects \/ Reload)]_vars
  /\ []((app = "restoring" /\ ValidSnapshot(savedCart)) => localStorage = savedCart)
  /\ [][(/\ app \in {"mounting", "restoring"}
         /\ app' = "running"
         /\ ValidSnapshot(savedCart')) =>
          (cartItems' = JSONparse(savedCart') /\ localStorage' = savedCart')]_vars
\* ------------------------------------------------------------ lost updates
\* C32: the step in which a confirmed add resolves applies AddItem to the
\* cart of that moment: the quantity of the product added is one more than
\* it was just before, and every other line is as it was just before,
\* whatever was changed, removed or added while the request was in flight.
\* And every step that changes the cart is one operation applied to the
\* cart it found, so the cart is always the result of the operations
\* applied one at a time in the order in which they took effect.
C32_NoLostUpdates ==
  /\ [][\A part \in Parts, resp \in CartResponses :
          (apiAddToCart(resp) /\ AddSettle(part, resp)) =>
            /\ cartItems' = AddItem(cartItems, part)
            /\ QuantityOf(cartItems', part.partselect_number) =
                 QuantityOf(cartItems, part.partselect_number) + 1
            /\ \A i \in 1..Len(cartItems) :
                 cartItems[i].partselect_number # part.partselect_number =>
                   cartItems'[i] = cartItems[i]]_vars
  /\ [][cartItems' # cartItems =>
          \/ \E part \in Parts : cartItems' = AddItem(cartItems, part)
          \/ \E index \in ValidIndexes(cartItems) :
               \E q \in Quantities \cup {DecrementTo(cartItems[index + 1].quantity),
                                         IncrementTo(cartItems[index + 1].quantity)} :
                 cartItems' = SetQuantity(cartItems, index, q)
          \/ \E index \in ValidIndexes(cartItems) : cartItems' = RemoveLine(cartItems, index)
          \/ cartItems' = CheckedOutCart(cartItems)]_vars

\* PS1 was added and raised to 2 with the "+" control, an add of PS2 has
\* resolved onto the edited cart, and another add of PS2 is in flight
C32_Witness ==
  /\ cartEdited
  /\ clock = 0
  /\ localAdds["PS1"] = 1
  /\ localAdds["PS2"] = 1
  /\ pendingAdds[P2] = 1
  /\ cartItems = <<Line(P1, 2), Line(P2, 1)>>
====
